---- MODULE Spec2Model ----
(***************************************************************************)
(* Synapse context-chain builder: the breadth-first traversal of the link  *)
(* graph (ContextBuilder.buildAutoContextChain), the formatter, the        *)
(* BranchStore and the strategy choice of SynapsePlugin.processThought.    *)
(***************************************************************************)
EXTENDS Integers, Sequences, FiniteSets, TLC

(* ------------------------------------------------------------------ *)
(* Bounds of the model                                                *)
(* ------------------------------------------------------------------ *)

\* The notes of the vault (TFile paths); two of them share a basename.
Paths == {"a.md", "b.md", "sub/a.md"}

\* The path of the note NoteManager.createNote makes.
NewPaths == {"new.md"}

AllNotes == Paths \cup NewPaths

\* A path the vault resolves to something that is not a TFile (a folder or a
\* deleted note): fileFromPath answers null for it.
Ghost == "ghost"

\* Largest number of entries of the link index: the entries of
\* metadataCache.resolvedLinks plus the keys the backlink API reports.
MaxLinks == 3

\* Largest contextDepth / autoContextMaxNotes handed to updateSettings.
MaxDepthSetting == 2

MaxNotesSetting == 3

\* Longest list of notes handed over as an explicit selection.
MaxListLen == 2

\* Longest branch the user builds by hand.
MaxBranch == 2

\* Longest branch in the specification of the BranchStore alone.
MaxStoreLen == 4

\* Longest text of the note whose content is varied.
MaxTextLen == 5

\* Defaults of the constructor.
DefaultDepth == 5

DefaultMaxNotes == 12

(* ------------------------------------------------------------------ *)
(* State                                                              *)
(* ------------------------------------------------------------------ *)

VARIABLES
    resolvedLinks,  \* app.metadataCache.resolvedLinks: <<source, target>> in key order
    backlinkData,   \* what getBacklinksForFile reports, or NoApi
    maxDepth,       \* ContextBuilder.maxDepth
    maxAutoNotes,   \* ContextBuilder.maxAutoNotes
    pc,             \* position of the running call
    startFile,      \* buildAutoContextChain: startFile
    maxNotes,       \* buildAutoContextChain: const maxNotes
    queue,          \* buildAutoContextChain: queue of [file, depth]
    visited,        \* buildAutoContextChain: visited
    chain,          \* buildAutoContextChain: chain
    chainDepth,     \* depth of the pair each chain element was accepted with
    enqueued,       \* every pair pushed on the queue so far, in push order
    entries,        \* BranchStore.entries (the path of each entry's file)
    vaultText,      \* what app.vault.read(file) resolves to
    unreadable,     \* the notes for which app.vault.read(file) rejects
    call,           \* the processThought call in flight
    sidebar         \* the branch sidebar: open or not, and its renderBranch calls

travVars == <<pc, startFile, maxNotes, queue, visited, chain, chainDepth, enqueued>>

plugVars == <<entries, vaultText, unreadable, call, sidebar>>

vars == <<resolvedLinks, backlinkData, maxDepth, maxAutoNotes, pc, startFile,
          maxNotes, queue, visited, chain, chainDepth, enqueued, entries,
          vaultText, unreadable, call, sidebar>>

NoApi == [api |-> FALSE, data |-> <<>>]

NoFile == "null"

(* ------------------------------------------------------------------ *)
(* Sequences as JavaScript collections                                *)
(* ------------------------------------------------------------------ *)

Range(s) == {s[i] : i \in 1..Len(s)}

\* Map.set(key, value) on a Map whose keys are kept in insertion order: a key
\* already present keeps its position.
MapSet(m, key) == IF key \in Range(m) THEN m ELSE Append(m, key)

RECURSIVE MapSetAll(_, _)
MapSetAll(m, keys) ==
    IF keys = <<>> THEN m ELSE MapSetAll(MapSet(m, Head(keys)), Tail(keys))

\* Map.delete(key)
MapDelete(m, key) == SelectSeq(m, LAMBDA k : k # key)

\* Math.max
Max(x, y) == IF x >= y THEN x ELSE y

Min(x, y) == IF x <= y THEN x ELSE y

DistinctSeqs(S, n) ==
    {s \in UNION {[1..k -> S] : k \in 0..n} :
        \A i, j \in 1..Len(s) : i # j => s[i] # s[j]}

\* An object's keys are enumerated in insertion order, so the entries of one
\* source are contiguous.
Grouped(s) ==
    \A i, j, k \in 1..Len(s) :
        (i < j /\ j < k /\ s[i][1] = s[k][1]) => s[j][1] = s[i][1]

(* ------------------------------------------------------------------ *)
(* Link index                                                         *)
(* ------------------------------------------------------------------ *)

\* vault.getAbstractFileByPath(path) instanceof TFile ? abstract : null
fileFromPath(path) == IF path \in Paths THEN path ELSE NoFile

Resolve(paths) == SelectSeq(paths, LAMBDA p : fileFromPath(p) # NoFile)

\* Keys of obj[file] for an object stored as <<owner, key>> pairs.
KeysOf(obj, owner) ==
    LET sel == SelectSeq(obj, LAMBDA e : e[1] = owner)
    IN  [i \in 1..Len(sel) |-> sel[i][2]]

\* Owners whose object has the key, in owner order.
OwnersOf(obj, key) ==
    LET sel == SelectSeq(obj, LAMBDA e : e[2] = key)
    IN  [i \in 1..Len(sel) |-> sel[i][1]]

getOutgoingLinks(file) == Resolve(KeysOf(resolvedLinks, file))

collectBacklinksFromCache(file, bucket) ==
    IF backlinkData = NoApi
    THEN bucket
    ELSE MapSetAll(bucket, Resolve(OwnersOf(backlinkData.data, file)))

collectBacklinksFromResolvedLinks(file, bucket) ==
    MapSetAll(bucket, Resolve(OwnersOf(resolvedLinks, file)))

getBacklinks(file) ==
    collectBacklinksFromResolvedLinks(file, collectBacklinksFromCache(file, <<>>))

\* the backlinks are left out of the neighbour set
getConnectedFilesOutgoingOnly(file) ==
    MapDelete(MapSetAll(<<>>, getOutgoingLinks(file)), file)

getConnectedFiles(file) ==
    MapDelete(MapSetAll(MapSetAll(<<>>, getOutgoingLinks(file)), getBacklinks(file)),
              file)

(* ------------------------------------------------------------------ *)
(* buildAutoContextChain                                              *)
(* ------------------------------------------------------------------ *)

\* the neighbours are pushed with the depth of the note they come from
PushesSameDepth(file, depth, vis) ==
    LET fresh == SelectSeq(getConnectedFiles(file), LAMBDA n : n \notin vis)
    IN  [i \in 1..Len(fresh) |-> [file |-> fresh[i], depth |-> depth]]

\* the for loop stops after its first push
PushesFirstOnly(file, depth, vis) ==
    LET fresh == SelectSeq(getConnectedFiles(file), LAMBDA n : n \notin vis)
    IN  [i \in 1..Min(1, Len(fresh)) |-> [file |-> fresh[i], depth |-> depth + 1]]

\* The pairs one expansion pushes: the neighbours not yet visited.
Pushes(file, depth, vis) ==
    LET fresh == SelectSeq(getConnectedFiles(file), LAMBDA n : n \notin vis)
    IN  [i \in 1..Len(fresh) |-> [file |-> fresh[i], depth |-> depth + 1]]

\* while (queue.length > 0), the test of the cap left out
LoopRunsWithoutCap == Len(queue) > 0

\* chain.length <= maxNotes in place of chain.length < maxNotes
LoopRunsOffByOne == Len(queue) > 0 /\ Len(chain) <= maxNotes

\* while (queue.length > 0 && chain.length < maxNotes)
LoopRuns == Len(queue) > 0 /\ Len(chain) < maxNotes

\* queue.pop() in place of queue.shift()
DequeuePop(q) == [item |-> q[Len(q)], rest |-> SubSeq(q, 1, Len(q) - 1)]

\* queue[0] in place of queue.shift(): the pair is never removed
DequeuePeek(q) == [item |-> Head(q), rest |-> q]

\* const { file, depth } = queue.shift()!
Dequeue(q) == [item |-> Head(q), rest |-> Tail(q)]

\* chain.unshift(file) in place of chain.push(file)
RECURSIVE RunLoopPrepends(_, _, _, _)
RunLoopPrepends(q, vis, ch, cap) ==
    IF ~(Len(q) > 0 /\ Len(ch) < cap)
    THEN ch
    ELSE LET file == Dequeue(q).item.file
             depth == Dequeue(q).item.depth
             rest == Dequeue(q).rest
         IN  IF file \in vis
             THEN RunLoopPrepends(rest, vis, ch, cap)
             ELSE IF depth >= maxDepth
                  THEN RunLoopPrepends(rest, vis \cup {file}, <<file>> \o ch, cap)
                  ELSE RunLoopPrepends(rest \o Pushes(file, depth, vis \cup {file}),
                                       vis \cup {file}, <<file>> \o ch, cap)

\* The whole loop of buildAutoContextChain, run without interruption as the
\* synchronous code runs it.
RECURSIVE RunLoop(_, _, _, _)
RunLoop(q, vis, ch, cap) ==
    IF ~(Len(q) > 0 /\ Len(ch) < cap)
    THEN ch
    ELSE LET file == Dequeue(q).item.file
             depth == Dequeue(q).item.depth
             rest == Dequeue(q).rest
         IN  IF file \in vis
             THEN RunLoop(rest, vis, ch, cap)
             ELSE IF depth >= maxDepth
                  THEN RunLoop(rest, vis \cup {file}, Append(ch, file), cap)
                  ELSE RunLoop(rest \o Pushes(file, depth, vis \cup {file}),
                               vis \cup {file}, Append(ch, file), cap)

buildAutoContextChain(file) ==
    RunLoop(<<[file |-> file, depth |-> 0]>>, {}, <<>>, Max(1, maxAutoNotes))

updateSettings(contextDepth, autoContextMaxNotes) ==
    /\ pc = "idle"
    /\ maxDepth' = contextDepth
    /\ maxAutoNotes' = autoContextMaxNotes
    /\ UNCHANGED <<resolvedLinks, backlinkData, travVars, plugVars>>

\* Math.max(0, this.maxAutoNotes) in place of Math.max(1, ...)
EnterTraversalClampsToZero(file) ==
    /\ pc = "idle"
    /\ pc' = "loop"
    /\ startFile' = file
    /\ maxNotes' = Max(0, maxAutoNotes)
    /\ visited' = {}
    /\ queue' = <<[file |-> file, depth |-> 0]>>
    /\ chain' = <<>>
    /\ chainDepth' = <<>>
    /\ enqueued' = <<[file |-> file, depth |-> 0]>>
    /\ UNCHANGED <<plugVars, resolvedLinks, backlinkData, maxDepth, maxAutoNotes>>

\* const maxNotes = this.maxAutoNotes, without Math.max(1, ...)
EnterTraversalUnclamped(file) ==
    /\ pc = "idle"
    /\ pc' = "loop"
    /\ startFile' = file
    /\ maxNotes' = maxAutoNotes
    /\ visited' = {}
    /\ queue' = <<[file |-> file, depth |-> 0]>>
    /\ chain' = <<>>
    /\ chainDepth' = <<>>
    /\ enqueued' = <<[file |-> file, depth |-> 0]>>
    /\ UNCHANGED <<plugVars, resolvedLinks, backlinkData, maxDepth, maxAutoNotes>>

\* lines 110-115: maxNotes, visited, queue and chain of a new call
EnterTraversal(file) ==
    /\ pc = "idle"
    /\ pc' = "loop"
    /\ startFile' = file
    /\ maxNotes' = Max(1, maxAutoNotes)
    /\ visited' = {}
    /\ queue' = <<[file |-> file, depth |-> 0]>>
    /\ chain' = <<>>
    /\ chainDepth' = <<>>
    /\ enqueued' = <<[file |-> file, depth |-> 0]>>
    /\ UNCHANGED <<plugVars, resolvedLinks, backlinkData, maxDepth, maxAutoNotes>>

\* the visited test is missing: a pair of a visited path is accepted again
SkipVisitedAccepts ==
    /\ pc = "loop"
    /\ LoopRuns
    /\ Dequeue(queue).item.file \in visited
    /\ chain' = Append(chain, Dequeue(queue).item.file)
    /\ chainDepth' = Append(chainDepth, Dequeue(queue).item.depth)
    /\ queue' = Dequeue(queue).rest
    /\ UNCHANGED <<plugVars, resolvedLinks, backlinkData, maxDepth, maxAutoNotes, pc,
                   startFile, maxNotes, visited, enqueued>>

\* if (visited.has(file.path)) continue;
SkipVisited ==
    /\ pc = "loop"
    /\ LoopRuns
    /\ Dequeue(queue).item.file \in visited
    /\ queue' = Dequeue(queue).rest
    /\ UNCHANGED <<plugVars, resolvedLinks, backlinkData, maxDepth, maxAutoNotes, pc,
                   startFile, maxNotes, visited, chain, chainDepth, enqueued>>

\* the depth test is missing: a pair at the depth limit is expanded as well
AcceptAtLimitExpands ==
    /\ pc = "loop"
    /\ LoopRuns
    /\ Dequeue(queue).item.file \notin visited
    /\ Dequeue(queue).item.depth >= maxDepth
    /\ LET file == Dequeue(queue).item.file
           depth == Dequeue(queue).item.depth
           vis == visited \cup {file}
           new == Pushes(file, depth, vis)
       IN  /\ visited' = vis
           /\ chain' = Append(chain, file)
           /\ chainDepth' = Append(chainDepth, depth)
           /\ queue' = Dequeue(queue).rest \o new
           /\ enqueued' = enqueued \o new
    /\ UNCHANGED <<plugVars, resolvedLinks, backlinkData, maxDepth, maxAutoNotes, pc,
                   startFile, maxNotes>>

\* accepted; if (depth >= this.maxDepth) continue;
AcceptAtLimit ==
    /\ pc = "loop"
    /\ LoopRuns
    /\ Dequeue(queue).item.file \notin visited
    /\ Dequeue(queue).item.depth >= maxDepth
    /\ visited' = visited \cup {Dequeue(queue).item.file}
    /\ chain' = Append(chain, Dequeue(queue).item.file)
    /\ chainDepth' = Append(chainDepth, Dequeue(queue).item.depth)
    /\ queue' = Dequeue(queue).rest
    /\ UNCHANGED <<plugVars, resolvedLinks, backlinkData, maxDepth, maxAutoNotes, pc,
                   startFile, maxNotes, enqueued>>

\* the pushed neighbours are marked visited when they are pushed
AcceptAndExpandMarksPushed ==
    /\ pc = "loop"
    /\ LoopRuns
    /\ Dequeue(queue).item.file \notin visited
    /\ Dequeue(queue).item.depth < maxDepth
    /\ LET file == Dequeue(queue).item.file
           depth == Dequeue(queue).item.depth
           vis == visited \cup {file}
           new == Pushes(file, depth, vis)
       IN  /\ visited' = vis \cup {new[i].file : i \in 1..Len(new)}
           /\ chain' = Append(chain, file)
           /\ chainDepth' = Append(chainDepth, depth)
           /\ queue' = Dequeue(queue).rest \o new
           /\ enqueued' = enqueued \o new
    /\ UNCHANGED <<plugVars, resolvedLinks, backlinkData, maxDepth, maxAutoNotes, pc,
                   startFile, maxNotes>>

\* if (depth > this.maxDepth) continue: a pair at the limit is expanded
AcceptAndExpandAtLimit ==
    /\ pc = "loop"
    /\ LoopRuns
    /\ Dequeue(queue).item.file \notin visited
    /\ Dequeue(queue).item.depth <= maxDepth
    /\ LET file == Dequeue(queue).item.file
           depth == Dequeue(queue).item.depth
           vis == visited \cup {file}
           new == Pushes(file, depth, vis)
       IN  /\ visited' = vis
           /\ chain' = Append(chain, file)
           /\ chainDepth' = Append(chainDepth, depth)
           /\ queue' = Dequeue(queue).rest \o new
           /\ enqueued' = enqueued \o new
    /\ UNCHANGED <<plugVars, resolvedLinks, backlinkData, maxDepth, maxAutoNotes, pc,
                   startFile, maxNotes>>

\* accepted and expanded
AcceptAndExpand ==
    /\ pc = "loop"
    /\ LoopRuns
    /\ Dequeue(queue).item.file \notin visited
    /\ Dequeue(queue).item.depth < maxDepth
    /\ LET file == Dequeue(queue).item.file
           depth == Dequeue(queue).item.depth
           vis == visited \cup {file}
           new == Pushes(file, depth, vis)
       IN  /\ visited' = vis
           /\ chain' = Append(chain, file)
           /\ chainDepth' = Append(chainDepth, depth)
           /\ queue' = Dequeue(queue).rest \o new
           /\ enqueued' = enqueued \o new
    /\ UNCHANGED <<plugVars, resolvedLinks, backlinkData, maxDepth, maxAutoNotes, pc,
                   startFile, maxNotes>>

\* the while condition fails: return chain
ReturnChain ==
    /\ pc = "loop"
    /\ ~LoopRuns
    /\ pc' = "returned"
    /\ UNCHANGED <<plugVars, resolvedLinks, backlinkData, maxDepth, maxAutoNotes,
                   startFile, maxNotes, queue, visited, chain, chainDepth, enqueued>>

\* the caller has taken the chain; the frontier is discarded
Discard ==
    /\ pc = "returned"
    /\ pc' = "idle"
    /\ startFile' = NoFile
    /\ maxNotes' = 0
    /\ queue' = <<>>
    /\ visited' = {}
    /\ chain' = <<>>
    /\ chainDepth' = <<>>
    /\ enqueued' = <<>>
    /\ UNCHANGED <<plugVars, resolvedLinks, backlinkData, maxDepth, maxAutoNotes>>

(* ------------------------------------------------------------------ *)
(* Vault and formatter                                                *)
(* ------------------------------------------------------------------ *)

\* TFile.basename: the file name without folder and extension.
Basename(path) ==
    CASE path = "a.md" -> "a"
      [] path = "b.md" -> "b"
      [] path = "sub/a.md" -> "a"
      [] path = "new.md" -> "new"

\* A string is the sequence of its characters; the fixed parts of a header are
\* kept as one element each.
SampleText ==
    [p \in AllNotes |->
        CASE p = "a.md" -> <<"S", "[", "[", "O", "|", "h", "]", "]", "f">>
          [] p = "b.md" -> <<"x", "]", "]">>
          [] p = "sub/a.md" -> <<"[", "[", "\n", "]", "]">>
          [] p = "new.md" -> <<"r">>]

\* Position of the first "]]" that closes a "[[" opening at i with no line
\* break in between (the lazy .*? of the pattern), or 0 when s has no match
\* starting at i.
CloseOf(s, i) ==
    IF i + 1 <= Len(s) /\ s[i] = "[" /\ s[i + 1] = "["
    THEN LET ends == {j \in (i + 2)..(Len(s) - 1) :
                         /\ s[j] = "]"
                         /\ s[j + 1] = "]"
                         /\ \A k \in (i + 2)..(j - 1) : s[k] # "\n"}
         IN  IF ends = {} THEN 0 ELSE CHOOSE j \in ends : \A k \in ends : j <= k
    ELSE 0

\* The part of the span s[i..j+1] after its "|", if it has one.
AliasOf(s, i, j) ==
    LET bars == {k \in (i + 2)..(j - 1) : s[k] = "|"}
    IN  IF bars = {}
        THEN <<>>
        ELSE SubSeq(s, (CHOOSE k \in bars : \A m \in bars : k <= m) + 1, j - 1)

\* a link is replaced by its alias
RECURSIVE StripFromKeepsAlias(_, _)
StripFromKeepsAlias(s, i) ==
    IF i > Len(s)
    THEN <<>>
    ELSE IF CloseOf(s, i) # 0
         THEN AliasOf(s, i, CloseOf(s, i)) \o StripFromKeepsAlias(s, CloseOf(s, i) + 2)
         ELSE <<s[i]>> \o StripFromKeepsAlias(s, i + 1)

RECURSIVE StripFrom(_, _)
StripFrom(s, i) ==
    IF i > Len(s)
    THEN <<>>
    ELSE IF CloseOf(s, i) # 0
         THEN StripFrom(s, CloseOf(s, i) + 2)
         ELSE <<s[i]>> \o StripFrom(s, i + 1)

\* content.replace(/\[\[.*?\]\]/g, "")
StripLinks(s) == StripFrom(s, 1)

\* `--- [Note: ${file.basename}] ---\n${contentWithoutLinks}\n\n`
formatSingleNote(file) ==
    <<"--- [Note: ", Basename(file), "] ---", "\n">>
        \o StripLinks(vaultText[file]) \o <<"\n", "\n">>

(* ------------------------------------------------------------------ *)
(* processThought                                                     *)
(* ------------------------------------------------------------------ *)

\* selectedNotes?: TFile[]
Undefined == [given |-> FALSE, notes |-> <<>>]

Selection(list) == [given |-> TRUE, notes |-> list]

NoContext == <<"no context">>

\* No error has been thrown.
NoError == <<>>

\* What this.app.vault.read(file) rejects with is the vault's choice: the
\* message of the error names the path, or it does not. A message is the
\* sequence of its parts.
ReadErrors(file) == {<<"ENOENT: no such file or directory, open ", file>>,
                     <<"File is not readable">>}

NoCall ==
    [pc |-> "idle", caller |-> "none",
     activeFile |-> NoFile, selectedNotes |-> Undefined,
     strategy |-> "none", notes |-> <<>>, next |-> 1,
     sections |-> <<>>, context |-> NoContext, failedOn |-> NoFile,
     error |-> NoError]

\* The branch sidebar has not been opened: no listener is registered with
\* the BranchStore. renders counts the calls of renderBranch that the last
\* operation of the store caused.
SidebarClosed == [open |-> FALSE, renders |-> 0]

PluginIdle ==
    /\ entries = <<>>
    /\ vaultText = SampleText
    /\ unreadable = {}
    /\ call = NoCall
    /\ sidebar = SidebarClosed

IdleCall ==
    /\ PluginIdle
    /\ pc = "idle"
    /\ startFile = NoFile
    /\ maxNotes = 0
    /\ queue = <<>>
    /\ visited = {}
    /\ chain = <<>>
    /\ chainDepth = <<>>
    /\ enqueued = <<>>

\* resolvedLinks holds resolved links only: both ends are notes of the vault.
LinkStates == {s \in DistinctSeqs(Paths \X Paths, MaxLinks) : Grouped(s)}

\* The backlink API is absent, or it is present and reports no key or a single
\* <<source, note>> key, which resolvedLinks may or may not hold as well; the
\* source may have left the vault since the cache was filled.
CacheStates ==
    {NoApi} \cup
    {[api |-> TRUE, data |-> s] :
        s \in {<<>>} \cup {<<e>> : e \in (Paths \cup {Ghost}) \X Paths}}

IndexStates ==
    {ix \in LinkStates \X CacheStates : Len(ix[1]) + Len(ix[2].data) <= MaxLinks}

\* No call is running; the link index is in any of its states.
InitIdle ==
    /\ \E ix \in IndexStates :
          /\ resolvedLinks = ix[1]
          /\ backlinkData = ix[2]
    /\ IdleCall

\* constructor: maxDepth = 5, maxAutoNotes = 12
InitAuto ==
    /\ InitIdle
    /\ maxDepth = DefaultDepth
    /\ maxAutoNotes = DefaultMaxNotes

NextAuto ==
    \/ \E d \in 0..MaxDepthSetting, n \in -1..MaxNotesSetting : updateSettings(d, n)
    \/ \E f \in Paths : EnterTraversal(f)
    \/ SkipVisited
    \/ AcceptAtLimit
    \/ AcceptAndExpand
    \/ ReturnChain
    \/ Discard

SpecAuto == InitAuto /\ [][NextAuto]_vars

\* The builder is also handed a depth below 0.
NextAnyDepth ==
    \/ NextAuto
    \/ \E n \in 0..MaxNotesSetting : updateSettings(-1, n)

SpecAnyDepth == InitAuto /\ [][NextAnyDepth]_vars

(* ------------------------------------------------------------------ *)
(* Graph distance, for the statements about the traversal             *)
(* ------------------------------------------------------------------ *)

\* y is an outgoing link or a backlink of x, as the link index reports them.
Linked(x, y) == y \in Range(getOutgoingLinks(x)) \cup Range(getBacklinks(x))

UndirectedNeighbours(x) == {y \in Paths : Linked(x, y) \/ Linked(y, x)}

\* The notes within k steps of those of B, one step leading from x to Step[x].
RECURSIVE Grow(_, _, _)
Grow(B, k, Step) ==
    IF k <= 0
    THEN B
    ELSE LET N == B \cup UNION {Step[x] : x \in B}
         IN  IF N = B THEN B ELSE Grow(N, k - 1, Step)

\* The notes within undirected distance k of seed.
Ball(seed, k) == Grow({seed}, k, [x \in Paths |-> UndirectedNeighbours(x)])

\* The notes within k hops of seed along getConnectedFiles.
Reach(seed, k) == Grow({seed}, k, [x \in Paths |-> Range(getConnectedFiles(x))])

\* B is a backlink of A exactly when A is an outgoing link of B.
IndexConsistent ==
    \A x, y \in Paths :
        (y \in Range(getBacklinks(x))) <=> (x \in Range(getOutgoingLinks(y)))

InCall == pc \in {"loop", "returned"}

\* Index of the first push of the path on the queue.
FirstEnqueue(path) ==
    CHOOSE i \in 1..Len(enqueued) :
        /\ enqueued[i].file = path
        /\ \A j \in 1..(i - 1) : enqueued[j].file # path

(* ------------------------------------------------------------------ *)
(* Statements about buildAutoContextChain                             *)
(* ------------------------------------------------------------------ *)

\* C1: no two elements of the chain share a path, after every loop iteration
\* and at return, for every link graph, seed, maxDepth and maxAutoNotes.
C1_NoDuplicatePaths ==
    \A i, j \in 1..Len(chain) : i # j => chain[i] # chain[j]

\* A call returned all three notes although some path was queued twice.
C1_Witness ==
    /\ pc = "returned"
    /\ Len(chain) = 3
    /\ \E i, j \in 1..Len(enqueued) : i # j /\ enqueued[i].file = enqueued[j].file

\* C2 as stated: the length of the chain never exceeds the configured
\* maxAutoNotes, at every step of the traversal and at return.
C2_LengthWithinConfigured == InCall => Len(chain) <= maxAutoNotes

\* C2 amended: the length of the chain never exceeds the effective cap
\* max(1, maxAutoNotes), at every step of the traversal and at return.
C2_LengthWithinEffectiveCap == InCall => Len(chain) <= Max(1, maxAutoNotes)

\* A call stopped by the cap: notes were still queued when the chain was full.
C2_Witness ==
    /\ pc = "returned"
    /\ maxAutoNotes >= 2
    /\ Len(chain) = maxAutoNotes
    /\ \E i \in 1..Len(queue) : queue[i].file \notin visited

\* C3: the chain a call returns is non-empty and starts with the seed, for
\* every graph, every maxDepth >= 0 and every maxAutoNotes.
C3_SeedFirst == pc = "returned" => (Len(chain) >= 1 /\ chain[1] = startFile)

\* A call with maxAutoNotes below 1, and a call that returned more than the seed.
C3_Witness ==
    /\ pc = "returned"
    /\ maxAutoNotes < 1
    /\ getConnectedFiles(startFile) # <<>>
    /\ chain = <<startFile>>

\* C4: a note whose undirected distance from the seed is greater than maxDepth
\* is never in the chain, also when the chain is shorter than the cap.
C4_DepthGating ==
    InCall => Range(chain) \subseteq Ball(startFile, maxDepth)

\* A call returned below the cap while a note just beyond maxDepth exists.
C4_Witness ==
    /\ pc = "returned"
    /\ Len(chain) < maxNotes
    /\ Len(chain) >= 2
    /\ Ball(startFile, maxDepth + 1) # Ball(startFile, maxDepth)

\* C5 as stated: the chain has length min(N, R), N = maxAutoNotes and R the
\* number of notes within undirected distance maxDepth of the seed; below N it
\* holds every note within that distance; a seed with no links gives [seed].
C5_LengthMinOfCapAndBall ==
    pc = "returned" =>
        /\ Len(chain) = Min(maxAutoNotes, Cardinality(Ball(startFile, maxDepth)))
        /\ Len(chain) < maxAutoNotes => Ball(startFile, maxDepth) \subseteq Range(chain)
        /\ UndirectedNeighbours(startFile) \subseteq {startFile} => chain = <<startFile>>

\* C5 amended: the chain has length min(max(1, N), R), R the number of notes
\* within maxDepth hops of the seed along getConnectedFiles; below the cap it
\* holds every such note; a seed without neighbours gives [seed]; and when the
\* link index is consistent R counts the notes within undirected distance
\* maxDepth.
C5_LengthMinOfCapAndReach ==
    pc = "returned" =>
        LET R == Reach(startFile, maxDepth)
        IN  /\ Len(chain) = Min(Max(1, maxAutoNotes), Cardinality(R))
            /\ Len(chain) < Max(1, maxAutoNotes) => R \subseteq Range(chain)
            /\ getConnectedFiles(startFile) = <<>> => chain = <<startFile>>
            /\ IndexConsistent => R = Ball(startFile, maxDepth)

\* A call returned fewer notes than the cap, more than the seed, and left a
\* note out because of the depth bound.
C5_Witness ==
    /\ pc = "returned"
    /\ IndexConsistent
    /\ Len(chain) = 2
    /\ maxAutoNotes > 2
    /\ Reach(startFile, maxDepth + 1) # Reach(startFile, maxDepth)

\* C6: the depths at which successive chain elements were accepted never
\* decrease; notes of equal depth appear in the order of their first push on
\* the queue; and when the seed has at least N-1 neighbours and maxDepth >= 1
\* the returned chain is the seed followed by its first N-1 neighbours in
\* enumeration order.
C6_BfsDiscoveryOrder ==
    /\ InCall =>
          \A i, j \in 1..Len(chain) :
              i < j =>
                 /\ chainDepth[i] <= chainDepth[j]
                 /\ chainDepth[i] = chainDepth[j] =>
                        FirstEnqueue(chain[i]) < FirstEnqueue(chain[j])
    /\ (/\ pc = "returned"
        /\ maxDepth >= 1
        /\ Len(getConnectedFiles(startFile)) >= maxAutoNotes - 1) =>
           chain = <<startFile>> \o SubSeq(getConnectedFiles(startFile), 1, maxAutoNotes - 1)

\* A call with a cap of 3 returned the seed and its two neighbours, both of
\* depth 1.
C6_Witness ==
    /\ pc = "returned"
    /\ Len(chain) = 3
    /\ chainDepth = <<0, 1, 1>>
    /\ maxAutoNotes = 3

\* C7: every call of buildAutoContextChain returns, on every link graph
\* (cycles and self-links included) and for every maxDepth and maxAutoNotes.
C7_Terminates == (pc = "loop") ~> (pc = "returned")

\* A call returned on a graph with a self-link and a cycle through the seed.
C7_Witness ==
    /\ pc = "returned"
    /\ maxDepth = DefaultDepth
    /\ \E x \in Paths : <<x, x>> \in Range(resolvedLinks)
    /\ \E x \in Paths \ {startFile} :
          /\ <<startFile, x>> \in Range(resolvedLinks)
          /\ <<x, startFile>> \in Range(resolvedLinks)
    /\ Len(chain) >= 2

\* The loop of buildAutoContextChain is synchronous code: once entered it runs
\* until its condition fails.
LoopStep == SkipVisited \/ AcceptAtLimit \/ AcceptAndExpand \/ ReturnChain

\* One call from its entry to its return: the bounds are set before it
\* starts, and the vault has no backlink API, so that the neighbours come from
\* resolvedLinks alone (every graph of up to MaxLinks links, with its cycles and
\* self-links).
InitCall ==
    /\ resolvedLinks \in LinkStates
    /\ backlinkData = NoApi
    /\ IdleCall
    /\ \/ /\ maxDepth = DefaultDepth
          /\ maxAutoNotes = DefaultMaxNotes
       \/ /\ maxDepth \in 0..MaxDepthSetting
          /\ maxAutoNotes \in -1..MaxNotesSetting

NextCall ==
    \/ \E f \in Paths : EnterTraversal(f)
    \/ SkipVisited
    \/ AcceptAtLimit
    \/ AcceptAndExpand
    \/ ReturnChain

FairSpecAuto == InitCall /\ [][NextCall]_vars /\ WF_vars(LoopStep)

(* ------------------------------------------------------------------ *)
(* BranchStore                                                        *)
(* ------------------------------------------------------------------ *)

\* return [...this.entries]
getBranch == entries

has(file) == \E i \in 1..Len(entries) : entries[i] = file

\* Array.splice(index, 0, item) for 0 <= index
InsertAt(s, index, item) ==
    LET at == Min(index, Len(s))
    IN  SubSeq(s, 1, at) \o <<item>> \o SubSeq(s, at + 1, Len(s))

\* the test of has(file) is missing
addUnchecked(file) == InsertAt(entries, Len(entries), file)

\* add(file) without an index
add(file) == IF has(file) THEN entries ELSE InsertAt(entries, Len(entries), file)

remove(path) == SelectSeq(entries, LAMBDA e : e # path)

\* add(file, index)
addAt(file, index) == IF has(file) THEN entries ELSE InsertAt(entries, index, file)

\* the entries at the two indices change places
moveSwaps(oldIndex, newIndex) ==
    IF \/ oldIndex = newIndex
       \/ oldIndex < 0 \/ oldIndex >= Len(entries)
       \/ newIndex < 0 \/ newIndex >= Len(entries)
    THEN entries
    ELSE [entries EXCEPT ![oldIndex + 1] = entries[newIndex + 1],
                         ![newIndex + 1] = entries[oldIndex + 1]]

\* move(oldIndex, newIndex), indices counted from 0
move(oldIndex, newIndex) ==
    IF oldIndex = newIndex
    THEN entries
    ELSE IF oldIndex < 0 \/ oldIndex >= Len(entries)
         THEN entries
         ELSE IF newIndex < 0 \/ newIndex >= Len(entries)
              THEN entries
              ELSE LET entry == entries[oldIndex + 1]
                       without == SubSeq(entries, 1, oldIndex)
                                      \o SubSeq(entries, oldIndex + 2, Len(entries))
                   IN  InsertAt(without, newIndex, entry)

\* this.events.trigger('branch-updated'), as often as the operation calls
\* emitChange: every registered listener runs once per event, and the only
\* listener is the renderBranch of the open sidebar.
emitChange(times) ==
    IF sidebar.open THEN [sidebar EXCEPT !.renders = times] ELSE sidebar

\* showBranchView: the sidebar is opened if it is not open yet, and onOpen
\* registers its listener with the store.
showBranchView(view) == [view EXCEPT !.open = TRUE]

storeFrame == <<resolvedLinks, backlinkData, travVars, vaultText>>

pluginFrame == <<storeFrame, sidebar>>

\* addActiveNoteToBranch, handleInternalLinkClick
BranchAdd(file) ==
    /\ Len(entries) < MaxBranch
    /\ entries' = add(file)
    /\ sidebar' = showBranchView(emitChange(IF has(file) THEN 0 ELSE 1))
    /\ UNCHANGED <<storeFrame, maxDepth, maxAutoNotes, unreadable, call>>

\* remove triggers the event whether or not an entry was removed
BranchRemoveAlwaysEmits(path) ==
    /\ entries' = remove(path)
    /\ sidebar' = emitChange(1)
    /\ UNCHANGED <<storeFrame, maxDepth, maxAutoNotes, unreadable, call>>

\* the remove button of the sidebar
BranchRemove(path) ==
    /\ entries' = remove(path)
    /\ sidebar' = emitChange(IF Len(remove(path)) # Len(entries) THEN 1 ELSE 0)
    /\ UNCHANGED <<storeFrame, maxDepth, maxAutoNotes, unreadable, call>>

\* the command "Clear branch", the clear button of the sidebar
BranchClear ==
    /\ entries' = IF Len(entries) = 0 THEN entries ELSE <<>>
    /\ sidebar' = emitChange(IF Len(entries) = 0 THEN 0 ELSE 1)
    /\ UNCHANGED <<storeFrame, maxDepth, maxAutoNotes, unreadable, call>>

\* a drop in the sidebar
BranchMove(oldIndex, newIndex) ==
    /\ entries' = move(oldIndex, newIndex)
    /\ sidebar' = emitChange(IF \/ oldIndex = newIndex
                                \/ oldIndex < 0 \/ oldIndex >= Len(entries)
                                \/ newIndex < 0 \/ newIndex >= Len(entries)
                             THEN 0
                             ELSE 1)
    /\ UNCHANGED <<storeFrame, maxDepth, maxAutoNotes, unreadable, call>>

(* ------------------------------------------------------------------ *)
(* Vault                                                              *)
(* ------------------------------------------------------------------ *)

\* A note is deleted or locked while the plugin runs: reads of it reject.
ReadsStartFailing(path) ==
    /\ unreadable = {}
    /\ unreadable' = {path}
    /\ UNCHANGED <<pluginFrame, maxDepth, maxAutoNotes, entries, call>>

ReadsRecover ==
    /\ unreadable # {}
    /\ unreadable' = {}
    /\ UNCHANGED <<pluginFrame, maxDepth, maxAutoNotes, entries, call>>

\* the chain of an automatic build in flight is built again under the new
\* bounds
SettingsChangeMigratesCall(contextDepth, autoContextMaxNotes) ==
    /\ maxDepth' = contextDepth
    /\ maxAutoNotes' = autoContextMaxNotes
    /\ call' = IF call.pc = "format" /\ call.strategy = "auto"
               THEN [call EXCEPT !.notes =
                        IF contextDepth = 0 \/ autoContextMaxNotes <= 1
                        THEN <<call.activeFile>>
                        ELSE @]
               ELSE call
    /\ UNCHANGED <<pluginFrame, entries, unreadable>>

\* saveSettings while the plugin runs
SettingsChange(contextDepth, autoContextMaxNotes) ==
    /\ maxDepth' = contextDepth
    /\ maxAutoNotes' = autoContextMaxNotes
    /\ UNCHANGED <<pluginFrame, entries, unreadable, call>>

(* ------------------------------------------------------------------ *)
(* processThought, step by step                                       *)
(* ------------------------------------------------------------------ *)

\* the branch list is consulted before the explicit selection
ChooseStrategyBranchFirst(selectedNotes, branch) ==
    IF Len(branch) > 0
    THEN "branch"
    ELSE IF selectedNotes.given /\ Len(selectedNotes.notes) > 0
         THEN "selection"
         ELSE "auto"

\* if (selectedNotes && selectedNotes.length > 0) ... else if
\* (this.branchStore.getBranch().length > 0) ... else ...
ChooseStrategy(selectedNotes, branch) ==
    IF selectedNotes.given /\ Len(selectedNotes.notes) > 0
    THEN "selection"
    ELSE IF Len(branch) > 0
         THEN "branch"
         ELSE "auto"

\* The list the chosen strategy hands to formatNotes.
StrategyNotes(strategy, selectedNotes, branch, activeFile) ==
    CASE strategy = "selection" -> selectedNotes.notes
      [] strategy = "branch" -> branch
      [] strategy = "auto" -> buildAutoContextChain(activeFile)

\* processThought up to its first await: the strategy is chosen, the chain is
\* built and formatNotes asks for the first note.
ProcessThought(activeFile, selectedNotes) ==
    /\ call.pc = "idle"
    /\ LET strategy == ChooseStrategy(selectedNotes, getBranch)
       IN  call' = [pc |-> "format",
                    caller |-> "processThought",
                    activeFile |-> activeFile,
                    selectedNotes |-> selectedNotes,
                    strategy |-> strategy,
                    notes |-> StrategyNotes(strategy, selectedNotes, getBranch, activeFile),
                    next |-> 1,
                    sections |-> <<>>,
                    context |-> NoContext,
                    failedOn |-> NoFile,
                    error |-> NoError]
    /\ UNCHANGED <<pluginFrame, maxDepth, maxAutoNotes, entries, unreadable>>

\* the loop consumes the list it is given: notes.shift() in place of for..of
ReadResolvesConsumesList ==
    /\ call.pc = "format"
    /\ call.next <= Len(call.notes)
    /\ call.notes[call.next] \notin unreadable
    /\ call' = [call EXCEPT
                  !.notes = Tail(@),
                  !.selectedNotes =
                      IF call.strategy = "selection" THEN Selection(Tail(@.notes)) ELSE @,
                  !.sections = Append(@, formatSingleNote(call.notes[call.next]))]
    /\ UNCHANGED <<pluginFrame, maxDepth, maxAutoNotes, entries, unreadable>>

\* the loop of formatNotes runs over the live branch list instead of a copy
ReadResolvesLiveBranch ==
    LET live == IF call.strategy = "branch" THEN entries ELSE call.notes
    IN  /\ call.pc = "format"
        /\ call.next <= Len(live)
        /\ live[call.next] \notin unreadable
        /\ call' = [call EXCEPT
                      !.next = @ + 1,
                      !.sections = Append(@, formatSingleNote(live[call.next]))]
        /\ UNCHANGED <<pluginFrame, maxDepth, maxAutoNotes, entries, unreadable>>

\* the same note is formatted at most once
ReadResolvesOncePerPath ==
    /\ call.pc = "format"
    /\ call.next <= Len(call.notes)
    /\ call.notes[call.next] \notin unreadable
    /\ call' = [call EXCEPT
                  !.next = @ + 1,
                  !.sections =
                      IF \E i \in 1..(call.next - 1) : call.notes[i] = call.notes[call.next]
                      THEN @
                      ELSE Append(@, formatSingleNote(call.notes[call.next]))]
    /\ UNCHANGED <<pluginFrame, maxDepth, maxAutoNotes, entries, unreadable>>

\* sections.push(await this.formatSingleNote(file)): the read resolves
ReadResolves ==
    /\ call.pc = "format"
    /\ call.next <= Len(call.notes)
    /\ call.notes[call.next] \notin unreadable
    /\ call' = [call EXCEPT
                  !.next = @ + 1,
                  !.sections = Append(@, formatSingleNote(call.notes[call.next]))]
    /\ UNCHANGED <<pluginFrame, maxDepth, maxAutoNotes, entries, unreadable>>

\* a read that rejects is caught and the note left out
ReadRejectsSkipped ==
    /\ call.pc = "format"
    /\ call.next <= Len(call.notes)
    /\ call.notes[call.next] \in unreadable
    /\ call' = [call EXCEPT !.next = @ + 1, !.failedOn = call.notes[call.next]]
    /\ UNCHANGED <<pluginFrame, maxDepth, maxAutoNotes, entries, unreadable>>

\* await this.app.vault.read(file) rejects: nothing catches it before the
\* catch of processThought, which receives the error as the vault threw it
ReadRejects ==
    /\ call.pc = "format"
    /\ call.next <= Len(call.notes)
    /\ call.notes[call.next] \in unreadable
    /\ \E e \in ReadErrors(call.notes[call.next]) :
           call' = [call EXCEPT !.pc = "failed",
                                !.failedOn = call.notes[call.next],
                                !.error = e]
    /\ UNCHANGED <<pluginFrame, maxDepth, maxAutoNotes, entries, unreadable>>

\* sections.join with a line break between the blocks
RECURSIVE JoinWithNewline(_)
JoinWithNewline(sections) ==
    IF sections = <<>>
    THEN <<>>
    ELSE IF Len(sections) = 1
         THEN Head(sections)
         ELSE Head(sections) \o <<"\n">> \o JoinWithNewline(Tail(sections))

\* sections.join("")
RECURSIVE Join(_)
Join(sections) ==
    IF sections = <<>> THEN <<>> ELSE Head(sections) \o Join(Tail(sections))

\* return sections.join(""); context is assigned: processThought asks the
\* model, the preview modal shows it
FormatReturns ==
    /\ call.pc = "format"
    /\ call.next > Len(call.notes)
    /\ call' = [call EXCEPT
                  !.pc = IF call.caller = "preview" THEN "shown" ELSE "llm",
                  !.context = Join(call.sections)]
    /\ UNCHANGED <<pluginFrame, maxDepth, maxAutoNotes, entries, unreadable>>

\* the new note is made and not added to the branch list
NoteCreatedNotAdded(newNote) ==
    /\ call.pc = "llm"
    /\ ~has(newNote)
    /\ call' = [call EXCEPT !.pc = "done"]
    /\ UNCHANGED <<pluginFrame, maxDepth, maxAutoNotes, entries, unreadable>>

\* generateResponse and createNote resolve; this.branchStore.add(newNote);
\* await this.showBranchView()
NoteCreated(newNote) ==
    /\ call.pc = "llm"
    /\ ~has(newNote)
    /\ entries' = add(newNote)
    /\ sidebar' = showBranchView(emitChange(1))
    /\ call' = [call EXCEPT !.pc = "done"]
    /\ UNCHANGED <<storeFrame, maxDepth, maxAutoNotes, unreadable>>

\* generateResponse or createNote rejects
ResponseRejects ==
    /\ call.pc = "llm"
    /\ call' = [call EXCEPT !.pc = "failed", !.error = <<"response failed">>]
    /\ UNCHANGED <<pluginFrame, maxDepth, maxAutoNotes, entries, unreadable>>

\* processThought has returned, or the preview modal is closed
CallEnds ==
    /\ call.pc \in {"done", "failed", "shown"}
    /\ call' = NoCall
    /\ UNCHANGED <<pluginFrame, maxDepth, maxAutoNotes, entries, unreadable>>

\* ContextPreviewModal.onOpen up to its first await:
\* this.selectedNotes ? buildContextFromNotes(this.selectedNotes)
\*                    : buildContext(this.activeFile)
PreviewOpen(activeFile, selectedNotes) ==
    /\ call.pc = "idle"
    /\ LET strategy == IF selectedNotes.given THEN "selection" ELSE "auto"
       IN  call' = [pc |-> "format",
                    caller |-> "preview",
                    activeFile |-> activeFile,
                    selectedNotes |-> selectedNotes,
                    strategy |-> strategy,
                    notes |-> StrategyNotes(strategy, selectedNotes, getBranch, activeFile),
                    next |-> 1,
                    sections |-> <<>>,
                    context |-> NoContext,
                    failedOn |-> NoFile,
                    error |-> NoError]
    /\ UNCHANGED <<pluginFrame, maxDepth, maxAutoNotes, entries, unreadable>>

\* automatic traversal whatever the branch list holds
GenerateResponseIgnoresBranch(activeFile) ==
    /\ call.pc = "idle"
    /\ call' = [pc |-> "format",
                caller |-> "generateResponse",
                activeFile |-> activeFile,
                selectedNotes |-> Undefined,
                strategy |-> "auto",
                notes |-> buildAutoContextChain(activeFile),
                next |-> 1,
                sections |-> <<>>,
                context |-> NoContext,
                failedOn |-> NoFile,
                error |-> NoError]
    /\ UNCHANGED <<pluginFrame, maxDepth, maxAutoNotes, entries, unreadable>>

\* generateResponse (inline and linked-note responses) up to its first await:
\* const branchEntries = this.branchStore.getBranch();
\* if (branchEntries.length > 0) ... else ...
GenerateResponse(activeFile) ==
    /\ call.pc = "idle"
    /\ LET branchEntries == getBranch
           strategy == IF Len(branchEntries) > 0 THEN "branch" ELSE "auto"
       IN  call' = [pc |-> "format",
                    caller |-> "generateResponse",
                    activeFile |-> activeFile,
                    selectedNotes |-> Undefined,
                    strategy |-> strategy,
                    notes |-> StrategyNotes(strategy, Undefined, branchEntries, activeFile),
                    next |-> 1,
                    sections |-> <<>>,
                    context |-> NoContext,
                    failedOn |-> NoFile,
                    error |-> NoError]
    /\ UNCHANGED <<pluginFrame, maxDepth, maxAutoNotes, entries, unreadable>>

\* generateInlineResponse: the answer is inserted in the editor, the branch
\* list is left alone
InlineInserted ==
    /\ call.pc = "llm"
    /\ call.caller = "generateResponse"
    /\ call' = [call EXCEPT !.pc = "done"]
    /\ UNCHANGED <<pluginFrame, maxDepth, maxAutoNotes, entries, unreadable>>

\* The selections a caller hands over: none, or a list that may repeat a path.
Selections ==
    {Undefined} \cup {Selection(l) : l \in UNION {[1..k -> Paths] : k \in 0..MaxListLen}}

\* The link graphs of the plugin-level specification: no link, or a chain
\* a.md -> b.md -> sub/a.md closed by a link back to a.md.
SampleLinks == <<<<"a.md", "b.md">>, <<"b.md", "sub/a.md">>, <<"sub/a.md", "a.md">>>>

\* The settings saved while the plugin runs: the tightest bounds, or the
\* defaults again.
SettingsSaved == {<<0, 0>>, <<DefaultDepth, DefaultMaxNotes>>}

Init ==
    /\ resolvedLinks \in {<<>>, SampleLinks}
    /\ backlinkData = NoApi
    /\ maxDepth = DefaultDepth
    /\ maxAutoNotes = DefaultMaxNotes
    /\ IdleCall

Next ==
    \/ \E o \in SettingsSaved : SettingsChange(o[1], o[2])
    \/ \E f \in Paths : BranchAdd(f)
    \/ \E p \in AllNotes : BranchRemove(p)
    \/ BranchClear
    \/ \E i, j \in 0..MaxBranch : BranchMove(i, j)
    \/ \E p \in Paths : ReadsStartFailing(p)
    \/ ReadsRecover
    \/ \E f \in Paths, sel \in Selections : ProcessThought(f, sel)
    \/ ReadResolves
    \/ ReadRejects
    \/ FormatReturns
    \/ \E p \in NewPaths : NoteCreated(p)
    \/ ResponseRejects
    \/ CallEnds

Spec == Init /\ [][Next]_vars

(* ------------------------------------------------------------------ *)
(* Preview and inline responses                                       *)
(* ------------------------------------------------------------------ *)

\* The branch list is edited, the preview is opened and responses are asked
\* for from the editor.
NextBuilds ==
    \/ \E f \in Paths : BranchAdd(f)
    \/ \E p \in AllNotes : BranchRemove(p)
    \/ BranchClear
    \/ \E i, j \in 0..MaxBranch : BranchMove(i, j)
    \/ \E f \in Paths, sel \in Selections : PreviewOpen(f, sel)
    \/ \E f \in Paths : GenerateResponse(f)
    \/ ReadResolves
    \/ FormatReturns
    \/ InlineInserted
    \/ \E p \in NewPaths : NoteCreated(p)
    \/ ResponseRejects
    \/ CallEnds

SpecBuilds == Init /\ [][NextBuilds]_vars

(* ------------------------------------------------------------------ *)
(* Formatting of arbitrary note texts                                 *)
(* ------------------------------------------------------------------ *)

\* The characters a note is written with.
Alphabet == {"[", "]", "|", "\n", "x"}

Texts == UNION {[1..k -> Alphabet] : k \in 0..MaxTextLen}

\* The lists handed to buildContextFromNotes: none, one note, two notes, the
\* same note twice.
FormatLists == {<<>>, <<"b.md">>, <<"a.md", "b.md">>, <<"b.md", "b.md">>}

\* The vault holds a.md with an aliased link and b.md with any text.
InitFormat ==
    /\ resolvedLinks = <<>>
    /\ backlinkData = NoApi
    /\ maxDepth = DefaultDepth
    /\ maxAutoNotes = DefaultMaxNotes
    /\ pc = "idle"
    /\ startFile = NoFile
    /\ maxNotes = 0
    /\ queue = <<>>
    /\ visited = {}
    /\ chain = <<>>
    /\ chainDepth = <<>>
    /\ enqueued = <<>>
    /\ entries = <<>>
    /\ \E t \in Texts : vaultText = [SampleText EXCEPT !["b.md"] = t]
    /\ unreadable = {}
    /\ call = NoCall
    /\ sidebar = SidebarClosed

NextFormat ==
    \/ \E l \in FormatLists : PreviewOpen("b.md", Selection(l))
    \/ ReadResolves
    \/ FormatReturns
    \/ CallEnds

SpecFormat == InitFormat /\ [][NextFormat]_vars

(* ------------------------------------------------------------------ *)
(* Manual chains, strategy and read failures                          *)
(* ------------------------------------------------------------------ *)

\* The blocks of a list of notes, one per entry, in list order.
BlocksOf(notes) == [i \in 1..Len(notes) |-> formatSingleNote(notes[i])]

\* The call in flight formats a list handed to buildContextFromNotes.
ManualCall == call.strategy \in {"selection", "branch"}

\* C8: buildContextFromNotes(notes) formats exactly the given list: the blocks
\* pushed so far are those of the first entries of the list, in list order,
\* and the context returned is the concatenation of one block per entry,
\* entries that repeat a path included, whatever the link graph, maxDepth and
\* maxAutoNotes are.
C8_ManualPassthrough ==
    ManualCall =>
        /\ call.strategy = "selection" => call.notes = call.selectedNotes.notes
        /\ Len(call.sections) <= Len(call.notes)
        /\ call.sections = SubSeq(BlocksOf(call.notes), 1, Len(call.sections))
        /\ call.context # NoContext =>
               /\ Len(call.sections) = Len(call.notes)
               /\ call.context = Join(BlocksOf(call.notes))

\* A selection that names the same note twice has been formatted into two
\* blocks although the vault has no link and the cap on automatic chains is 1.
C8_Witness ==
    /\ call.strategy = "selection"
    /\ call.context # NoContext
    /\ call.notes = <<"a.md", "a.md">>
    /\ Len(call.sections) = 2
    /\ resolvedLinks = <<>>
    /\ Max(1, maxAutoNotes) = 1
    /\ maxDepth = 0

\* C9: every call of processThought chooses its strategy from the selection
\* and the branch list as they are at the call: a non-empty selection is the
\* manual chain; otherwise a non-empty branch list is the manual chain; the
\* automatic traversal from the active file is used only when both are absent
\* or empty.
C9_StrategyByPrecedence ==
    [][(call.pc = "idle" /\ call'.pc = "format") =>
          LET sel == call'.selectedNotes
          IN  IF sel.given /\ sel.notes # <<>>
              THEN call'.strategy = "selection" /\ call'.notes = sel.notes
              ELSE IF entries # <<>>
                   THEN call'.strategy = "branch" /\ call'.notes = entries
                   ELSE /\ call'.strategy = "auto"
                        /\ call'.notes = buildAutoContextChain(call'.activeFile)
                        /\ Head(call'.notes) = call'.activeFile]_vars

\* After an earlier call has put its new note on the branch list, a call with
\* a non-empty selection uses the selection and not the branch list.
C9_Witness ==
    /\ call.pc = "llm"
    /\ call.strategy = "selection"
    /\ has("new.md")
    /\ call.notes # entries

\* C10: a read that rejects during formatting fails the whole call: the call
\* ends in its catch without a context, the blocks pushed before the failure
\* are dropped, and a context that is returned has a block for every note of
\* the chain.
C10_ReadFailureAborts ==
    /\ call.failedOn # NoFile => call.pc = "failed" /\ call.context = NoContext
    /\ call.context # NoContext =>
           /\ call.failedOn = NoFile
           /\ Len(call.sections) = Len(call.notes)

\* The read of the second note of a chain rejected after the first block had
\* been pushed.
C10_Witness ==
    /\ call.pc = "failed"
    /\ call.failedOn # NoFile
    /\ Len(call.sections) >= 1
    /\ call.context = NoContext

\* The message names the path.
Identifies(message, path) == \E i \in 1..Len(message) : message[i] = path

\* C11: when a call fails because a note could not be read, the message of
\* the error handed to the caller identifies the path of that note.
C11_ErrorNamesPath ==
    call.failedOn # NoFile => Identifies(call.error, call.failedOn)

(* ------------------------------------------------------------------ *)
(* Blocks                                                             *)
(* ------------------------------------------------------------------ *)

\* The content part of a block: what stands between the header line and the
\* terminating blank line.
BodyOf(block) == SubSeq(block, 5, Len(block) - 2)

\* t[i..j+1] opens with "[[" and closes with "]]" on the same line.
SpanAt(t, i, j) ==
    /\ i >= 1
    /\ j >= i + 2
    /\ j + 1 <= Len(t)
    /\ t[i] = "[" /\ t[i + 1] = "["
    /\ t[j] = "]" /\ t[j + 1] = "]"
    /\ \A k \in (i + 2)..(j - 1) : t[k] # "\n"

HasSpan(t) == \E i, j \in 1..Len(t) : SpanAt(t, i, j)

\* t[i..j+1] is the only bracketed part of t.
OnlySpan(t, i, j) ==
    /\ SpanAt(t, i, j)
    /\ \A k \in 1..Len(t) :
           t[k] \in {"[", "]"} => k \in {i, i + 1, j, j + 1}

\* C12: the content of a block holds no [[...]] span; where the note has a
\* single span, aliased or not, the content is the text before the span
\* followed by the text after it, nothing of the span kept; and a note without
\* a span is taken over unchanged between the header line and the terminating
\* blank line.
C12_LinksStripped ==
    \A n \in 1..Len(call.sections) :
        LET t == vaultText[call.notes[n]]
            body == BodyOf(call.sections[n])
        IN  /\ ~HasSpan(body)
            /\ ~HasSpan(t) => body = t
            /\ \A i, j \in 1..Len(t) :
                   OnlySpan(t, i, j) =>
                       body = SubSeq(t, 1, i - 1) \o SubSeq(t, j + 2, Len(t))

\* The preview shows a.md, whose text has an aliased link between two
\* characters, and b.md, whose text is a link with an empty target and alias.
C12_Witness ==
    /\ call.pc = "shown"
    /\ call.notes = <<"a.md", "b.md">>
    /\ vaultText["a.md"] = <<"S", "[", "[", "O", "|", "h", "]", "]", "f">>
    /\ vaultText["b.md"] = <<"[", "[", "|", "]", "]">>
    /\ BodyOf(call.sections[1]) = <<"S", "f">>
    /\ BodyOf(call.sections[2]) = <<>>

\* The block of a note: header, line break, stripped content, blank line.
ExpectedBlock(file) ==
    <<"--- [Note: ", Basename(file), "] ---", "\n">>
        \o StripLinks(vaultText[file]) \o <<"\n", "\n">>

RECURSIVE ExpectedContext(_)
ExpectedContext(notes) ==
    IF notes = <<>>
    THEN <<>>
    ELSE ExpectedBlock(Head(notes)) \o ExpectedContext(Tail(notes))

\* C13: the context returned is the blocks of the chain elements, one per
\* element, in chain order, with nothing between them; each block is the
\* header '--- [Note: <basename>] ---', a line break, the stripped content
\* and a blank line; the empty chain gives the empty string.
C13_ContextIsConcatenation ==
    call.context # NoContext =>
        /\ Len(call.sections) = Len(call.notes)
        /\ call.context = ExpectedContext(call.notes)
        /\ call.notes = <<>> => call.context = <<>>

\* A context of two blocks has been returned.
C13_Witness ==
    /\ call.pc = "shown"
    /\ call.notes = <<"a.md", "b.md">>
    /\ vaultText["b.md"] = <<"x">>
    /\ call.context = <<"--- [Note: ", "a", "] ---", "\n", "S", "f", "\n", "\n",
                        "--- [Note: ", "b", "] ---", "\n", "x", "\n", "\n">>

(* ------------------------------------------------------------------ *)
(* The builds of the preview and of the editor commands               *)
(* ------------------------------------------------------------------ *)

\* The context processThought builds for an active file, a selection and a
\* branch list.
ThoughtContext(activeFile, selectedNotes, branch) ==
    ExpectedContext(StrategyNotes(ChooseStrategy(selectedNotes, branch),
                                  selectedNotes, branch, activeFile))

\* C14: the context the preview modal builds for an active file, a selection
\* (absent, empty or not) and the branch list as it is when the modal opens
\* is the context processThought builds for the same three.
C14_PreviewShowsWhatIsSent ==
    [][(call.pc = "idle" /\ call'.pc = "format" /\ call'.caller = "preview") =>
          ExpectedContext(call'.notes)
              = ThoughtContext(call'.activeFile, call'.selectedNotes, entries)]_vars

\* C15: a call of generateResponse made while the branch list is not empty
\* formats the branch entries as they are at the call, in branch order, and
\* the context handed to the model is exactly their blocks; the automatic
\* traversal is used only when the branch list is empty at the call.
C15_BranchHonoured ==
    [][call'.caller = "generateResponse" =>
          /\ (call.pc = "idle" /\ call'.pc = "format") =>
                 /\ entries # <<>> =>
                        call'.strategy = "branch" /\ call'.notes = entries
                 /\ call'.strategy = "auto" =>
                        /\ entries = <<>>
                        /\ call'.notes = buildAutoContextChain(call'.activeFile)
          /\ (call.pc = "format" /\ call'.pc = "format") =>
                 call'.notes = call.notes
          /\ (call.pc = "format" /\ call'.pc = "llm") =>
                 /\ call'.notes = call.notes
                 /\ call'.context = ExpectedContext(call.notes)]_vars

\* In a vault with links, the model is asked with the blocks of a branch of
\* two notes that does not start with the active file.
C15_Witness ==
    /\ call.caller = "generateResponse"
    /\ call.pc = "llm"
    /\ call.strategy = "branch"
    /\ resolvedLinks # <<>>
    /\ Len(call.notes) = 2
    /\ call.notes[1] # call.activeFile
    /\ call.context = ExpectedContext(call.notes)

(* ------------------------------------------------------------------ *)
(* Builds in flight                                                   *)
(* ------------------------------------------------------------------ *)

\* C16: a call that formats the branch list works on the entries as they are
\* when it starts: whatever is added to, removed from, moved in or cleared
\* from the branch list while the call waits for its reads, the notes it
\* formats, their order and the context it returns are those of the list
\* taken at the start.
C16_SnapshotIsolated ==
    [][/\ (call.pc = "idle" /\ call'.pc = "format" /\ call'.strategy = "branch") =>
              call'.notes = entries
       /\ (call.pc = "format" /\ call.strategy = "branch") =>
              /\ call'.notes = call.notes
              /\ \/ call'.sections = call.sections
                 \/ /\ Len(call.sections) < Len(call.notes)
                    /\ call'.sections =
                           Append(call.sections,
                                  ExpectedBlock(call.notes[Len(call.sections) + 1]))
              /\ call'.pc = "llm" => call'.context = ExpectedContext(call.notes)]_vars

\* A call formats a branch of two notes and waits for the read of the
\* second one while the branch list has been cleared.
C16_Witness ==
    /\ call.strategy = "branch"
    /\ call.pc = "format"
    /\ Len(call.notes) = 2
    /\ Len(call.sections) = 1
    /\ call.next = 2
    /\ entries = <<>>

(* ------------------------------------------------------------------ *)
(* Settings                                                           *)
(* ------------------------------------------------------------------ *)

\* C17: with maxAutoNotes below 1 the traversal runs with a cap of 1 and
\* returns the chain that holds the seed and nothing else.
C17_CapBelowOneIsOne ==
    (InCall /\ maxAutoNotes < 1) =>
        /\ maxNotes = 1
        /\ pc = "returned" => chain = <<startFile>>

\* A call with maxAutoNotes = -1 returned the seed alone although the seed
\* has neighbours within the depth limit.
C17_Witness ==
    /\ pc = "returned"
    /\ maxAutoNotes = -1
    /\ maxDepth >= 1
    /\ getConnectedFiles(startFile) # <<>>
    /\ chain = <<startFile>>

\* C18: an automatic build formats the chain given by maxDepth and
\* maxAutoNotes as they are when it is invoked, so that a change of settings
\* is seen by every later call; a change of settings made while the build
\* waits for a read changes neither its chain nor the context it returns.
C18_SettingsAtInvocation ==
    [][/\ (call.pc = "idle" /\ call'.pc = "format" /\ call'.strategy = "auto") =>
              LET R == Reach(call'.activeFile, maxDepth)
              IN  /\ Head(call'.notes) = call'.activeFile
                  /\ Range(call'.notes) \subseteq R
                  /\ Len(call'.notes) = Min(Max(1, maxAutoNotes), Cardinality(R))
       /\ (call.pc = "format" /\ call.strategy = "auto") =>
              /\ call'.notes = call.notes
              /\ call'.pc = "llm" => call'.context = ExpectedContext(call.notes)]_vars

\* The settings were tightened to depth 0 and cap 0 while an automatic build
\* of three notes was waiting for its second read, which it still goes on to
\* ask for.
C18_Witness ==
    /\ call.strategy = "auto"
    /\ call.pc = "format"
    /\ call.next = 2
    /\ Len(call.sections) = 1
    /\ Len(call.notes) = 3
    /\ maxDepth = 0
    /\ maxAutoNotes = 0

(* ------------------------------------------------------------------ *)
(* The depth limit and the end of the traversal                       *)
(* ------------------------------------------------------------------ *)

\* C19: a pair dequeued at depth maxDepth whose path is not visited is
\* accepted, the cap allowing, and not expanded: the step pushes nothing on
\* the queue.
C19_LimitNotExpanded ==
    [][(/\ pc = "loop"
        /\ queue # <<>>
        /\ Len(chain) < maxNotes
        /\ Head(queue).depth = maxDepth
        /\ Head(queue).file \notin visited) =>
           /\ chain' = Append(chain, Head(queue).file)
           /\ queue' = Tail(queue)
           /\ enqueued' = enqueued]_vars

\* A call returned below its cap with a note accepted at depth maxDepth >= 1
\* one of whose neighbours was never pushed on the queue.
C19_Witness ==
    /\ pc = "returned"
    /\ maxDepth >= 1
    /\ Len(chain) < maxNotes
    /\ \E i \in 1..Len(chain) :
           /\ chainDepth[i] = maxDepth
           /\ \E n \in Range(getConnectedFiles(chain[i])) :
                  \A k \in 1..Len(enqueued) : enqueued[k].file # n

\* C20: the loop is left as soon as the chain has reached the cap or the
\* queue is empty, and not before; a dequeued pair whose depth exceeds
\* maxDepth has its note accepted and leaves the queue empty, so that nothing
\* is processed after it.
C20_StopConditions ==
    [][pc = "loop" =>
          /\ (Len(chain) >= maxNotes \/ queue = <<>>) =>
                 pc' = "returned" /\ chain' = chain
          /\ (Len(chain) < maxNotes /\ queue # <<>>) =>
                 /\ pc' = "loop"
                 /\ (Head(queue).depth > maxDepth /\ Head(queue).file \notin visited) =>
                        /\ chain' = Append(chain, Head(queue).file)
                        /\ queue' = <<>>]_vars

\* With maxDepth -1 the seed, dequeued at depth 0, was accepted and the call
\* returned it alone, below the cap, although it has neighbours.
C20_Witness ==
    /\ pc = "returned"
    /\ maxDepth = -1
    /\ maxAutoNotes >= 2
    /\ getConnectedFiles(startFile) # <<>>
    /\ chain = <<startFile>>
    /\ queue = <<>>

(* ------------------------------------------------------------------ *)
(* Neighbours, visited set and queue                                  *)
(* ------------------------------------------------------------------ *)

NoDuplicates(s) == \A i, j \in 1..Len(s) : s[i] = s[j] => i = j

\* C21: getConnectedFiles(file) holds every outgoing link and every backlink
\* of the file once: the outgoing links in the order of getOutgoingLinks,
\* then the backlinks that are not outgoing links in the order of
\* getBacklinks; the file itself is not among them.
C21_NeighbourOrder ==
    \A f \in Paths :
        LET out == getOutgoingLinks(f)
            back == getBacklinks(f)
            connected == getConnectedFiles(f)
        IN  /\ NoDuplicates(connected)
            /\ Range(connected) = (Range(out) \cup Range(back)) \ {f}
            /\ connected =
                   SelectSeq(out, LAMBDA n : n # f)
                       \o SelectSeq(back, LAMBDA n : n # f /\ n \notin Range(out))

\* A call returned the seed followed by its neighbours; one neighbour is
\* both an outgoing link and a backlink of the seed, another is a backlink
\* only.
C21_Witness ==
    /\ pc = "returned"
    /\ maxDepth = 1
    /\ chain = <<startFile>> \o getConnectedFiles(startFile)
    /\ (Range(getOutgoingLinks(startFile)) \cap Range(getBacklinks(startFile)))
           \ {startFile} # {}
    /\ (Range(getBacklinks(startFile)) \ Range(getOutgoingLinks(startFile)))
           \ {startFile} # {}

\* C22: a path enters visited only in the iteration that dequeues and accepts
\* its pair, never when a pair is pushed: visited is the set of the paths of
\* the chain, an iteration whose pair is not visited appends it to the chain
\* and adds this one path to visited, and an iteration whose pair is visited
\* removes the pair and changes neither chain nor visited.
C22_VisitedAtAccept ==
    [][(pc = "loop" /\ pc' = "loop") =>
          LET file == Head(queue).file
          IN  /\ visited = Range(chain)
              /\ queue' # queue
              /\ file \notin visited =>
                     /\ chain' = Append(chain, file)
                     /\ visited' = visited \cup {file}
              /\ file \in visited =>
                     /\ queue' = Tail(queue)
                     /\ chain' = chain
                     /\ visited' = visited]_vars

\* Two pairs of one path were in the queue together; every pair was dequeued
\* before the cap was reached, and one of them was discarded.
C22_Witness ==
    /\ pc = "returned"
    /\ queue = <<>>
    /\ Len(chain) < maxNotes
    /\ Len(enqueued) > Len(chain)
    /\ \E i \in 1..(Len(enqueued) - 1) :
           /\ enqueued[i].file = enqueued[i + 1].file
           /\ enqueued[i].depth < enqueued[i + 1].depth

(* ------------------------------------------------------------------ *)
(* Two builds in flight                                               *)
(* ------------------------------------------------------------------ *)

\* Two builds may be in flight together: processThought is not awaited by the
\* console, so a second one starts while the first waits for a read. Here
\* call holds one record per build.
Builds == {1, 2}

Other(b) == CHOOSE o \in Builds : o # b

\* overlapped records that a read of this build resolved while the other
\* build was between two of its own reads.
NoBuild ==
    [pc |-> "idle", activeFile |-> NoFile, selectedNotes |-> Undefined,
     notes |-> <<>>, next |-> 1, sections |-> <<>>, context |-> NoContext,
     overlapped |-> FALSE]

buildFrame == <<pluginFrame, maxDepth, maxAutoNotes, entries, unreadable>>

\* buildAutoContext(startFile): the chain is built before the first await
buildAutoContext(b, file) ==
    /\ call[b].pc = "idle"
    /\ call' = [call EXCEPT ![b] =
                   [NoBuild EXCEPT !.pc = "format",
                                   !.activeFile = file,
                                   !.notes = buildAutoContextChain(file)]]
    /\ UNCHANGED buildFrame

\* buildContextFromNotes(notes)
buildContextFromNotes(b, notes) ==
    /\ call[b].pc = "idle"
    /\ call' = [call EXCEPT ![b] =
                   [NoBuild EXCEPT !.pc = "format",
                                   !.selectedNotes = Selection(notes),
                                   !.notes = notes]]
    /\ UNCHANGED buildFrame

\* sections is a field of the builder: every build pushes on the same array
BuildReadsSharedSections(b) ==
    /\ call[b].pc = "format"
    /\ call[b].next <= Len(call[b].notes)
    /\ LET block == formatSingleNote(call[b].notes[call[b].next])
           mid == /\ call[Other(b)].pc = "format"
                  /\ call[Other(b)].next > 1
                  /\ call[Other(b)].next <= Len(call[Other(b)].notes)
       IN  call' = [o \in Builds |->
                      IF o = b
                      THEN [call[b] EXCEPT !.next = @ + 1,
                                           !.sections = Append(@, block),
                                           !.overlapped = @ \/ mid]
                      ELSE IF call[o].pc = "format"
                           THEN [call[o] EXCEPT !.sections = Append(@, block)]
                           ELSE call[o]]
    /\ UNCHANGED buildFrame

\* formatNotes of one build: sections.push(await this.formatSingleNote(file))
BuildReads(b) ==
    /\ call[b].pc = "format"
    /\ call[b].next <= Len(call[b].notes)
    /\ LET block == formatSingleNote(call[b].notes[call[b].next])
           mid == /\ call[Other(b)].pc = "format"
                  /\ call[Other(b)].next > 1
                  /\ call[Other(b)].next <= Len(call[Other(b)].notes)
       IN  call' = [call EXCEPT ![b] =
                      [@ EXCEPT !.next = @ + 1,
                                !.sections = Append(@, block),
                                !.overlapped = @ \/ mid]]
    /\ UNCHANGED buildFrame

\* formatNotes of one build: return sections.join("")
BuildReturns(b) ==
    /\ call[b].pc = "format"
    /\ call[b].next > Len(call[b].notes)
    /\ call' = [call EXCEPT ![b] =
                   [@ EXCEPT !.pc = "returned", !.context = Join(call[b].sections)]]
    /\ UNCHANGED buildFrame

\* the caller has taken the string
BuildEnds(b) ==
    /\ call[b].pc = "returned"
    /\ call' = [call EXCEPT ![b] = NoBuild]
    /\ UNCHANGED buildFrame

\* The lists handed to buildContextFromNotes.
BuildLists == UNION {[1..k -> Paths] : k \in 0..MaxListLen}

\* The settings of the builder while the two builds run: the defaults, or a
\* chain of at most two notes one hop away.
BuildSettings == {<<DefaultDepth, DefaultMaxNotes>>, <<1, 2>>}

InitConcurrent ==
    /\ resolvedLinks \in {<<>>, SampleLinks}
    /\ backlinkData = NoApi
    /\ \E o \in BuildSettings :
          /\ maxDepth = o[1]
          /\ maxAutoNotes = o[2]
    /\ pc = "idle"
    /\ startFile = NoFile
    /\ maxNotes = 0
    /\ queue = <<>>
    /\ visited = {}
    /\ chain = <<>>
    /\ chainDepth = <<>>
    /\ enqueued = <<>>
    /\ entries = <<>>
    /\ vaultText = SampleText
    /\ unreadable = {}
    /\ call = [b \in Builds |-> NoBuild]
    /\ sidebar = SidebarClosed

NextConcurrent ==
    \E b \in Builds :
        \/ \E f \in Paths : buildAutoContext(b, f)
        \/ \E l \in BuildLists : buildContextFromNotes(b, l)
        \/ BuildReads(b)
        \/ BuildReturns(b)
        \/ BuildEnds(b)

SpecConcurrent == InitConcurrent /\ [][NextConcurrent]_vars

\* The string a build returns when no other build runs: one block per note
\* of the list it was given, or of the chain of its start file.
AloneContext(build) ==
    IF build.selectedNotes.given
    THEN ExpectedContext(build.selectedNotes.notes)
    ELSE ExpectedContext(buildAutoContextChain(build.activeFile))

\* C23: two builds interleaved at their reads each return the string they
\* return when run alone on the same vault and link index.
C23_BuildsIndependent ==
    \A b \in Builds :
        call[b].pc = "returned" => call[b].context = AloneContext(call[b])

\* Both builds returned, each had reads resolve between two reads of the
\* other, and they returned different strings of more than one block.
C23_Witness ==
    /\ \A b \in Builds :
          /\ call[b].pc = "returned"
          /\ call[b].overlapped
          /\ Len(call[b].notes) >= 2
    /\ call[1].selectedNotes.given
    /\ ~call[2].selectedNotes.given
    /\ call[1].context # call[2].context

(* ------------------------------------------------------------------ *)
(* What a build leaves alone                                          *)
(* ------------------------------------------------------------------ *)

\* C24: every step of a build, from its start to its return or its failure,
\* leaves the link index, the texts of the notes, the branch list, the list
\* of notes it was given and maxDepth and maxAutoNotes as they were.
C24_BuildsArePureReads ==
    [][(/\ call' # call
        /\ \/ call.pc = "idle" /\ call'.pc = "format"
           \/ call.pc = "format") =>
           /\ UNCHANGED <<resolvedLinks, backlinkData, vaultText, entries,
                          maxDepth, maxAutoNotes>>
           /\ call.pc = "format" =>
                  /\ call'.selectedNotes = call.selectedNotes
                  /\ call'.notes = call.notes]_vars

\* A build from a selection of two notes failed at its second read, after
\* the first was formatted, with notes on the branch list and links in the
\* vault.
C24_Witness ==
    /\ call.pc = "failed"
    /\ call.strategy = "selection"
    /\ Len(call.selectedNotes.notes) = 2
    /\ call.failedOn = call.selectedNotes.notes[2]
    /\ Len(call.sections) = 1
    /\ entries # <<>>
    /\ resolvedLinks = SampleLinks

(* ------------------------------------------------------------------ *)
(* Depths and distances                                               *)
(* ------------------------------------------------------------------ *)

\* Length of the shortest undirected path from seed to a note that a path
\* leads to.
Distance(seed, note) ==
    CHOOSE k \in 0..Cardinality(Paths) :
        /\ note \in Ball(seed, k)
        /\ k > 0 => note \notin Ball(seed, k - 1)

\* C25: when the link index is consistent, every note of the chain was
\* accepted from a pair whose depth is the undirected distance of the note
\* from the seed, and the depths of the queued pairs never decrease from the
\* head of the queue to its tail.
C25_DepthIsDistance ==
    (InCall /\ IndexConsistent) =>
        /\ \A i \in 1..Len(chain) :
               chainDepth[i] = Distance(startFile, chain[i])
        /\ \A i, j \in 1..Len(queue) :
               i < j => queue[i].depth <= queue[j].depth

\* On a consistent index a call returned three notes; one of them was queued
\* at depth 1 and again at depth 2 and is in the chain with depth 1.
C25_Witness ==
    /\ pc = "returned"
    /\ IndexConsistent
    /\ chainDepth = <<0, 1, 1>>
    /\ \E i, j \in 1..Len(enqueued) :
           /\ enqueued[i].file = chain[3]
           /\ enqueued[j].file = chain[3]
           /\ enqueued[i].depth = 1
           /\ enqueued[j].depth = 2

(* ------------------------------------------------------------------ *)
(* The chain under a larger cap                                       *)
(* ------------------------------------------------------------------ *)

IsPrefix(s, t) == Len(s) <= Len(t) /\ s = SubSeq(t, 1, Len(s))

\* The chain of a call from seed with the cap at N, on the link index and
\* with the maxDepth of the state.
ChainForCap(seed, N) == RunLoop(<<[file |-> seed, depth |-> 0]>>, {}, <<>>, N)

\* C26: on one link index, for one seed and one maxDepth, the chain built
\* with cap N is a prefix of the chain built with cap N + 1, for every
\* N >= 1; the chain a call returns is the one of its own cap.
C26_CapMonotone ==
    pc = "returned" =>
        /\ chain = ChainForCap(startFile, maxNotes)
        /\ \A N \in 1..(MaxNotesSetting + 1) :
               IsPrefix(ChainForCap(startFile, N), ChainForCap(startFile, N + 1))

\* A call with cap 2 returned two notes where a cap of 3 gives three.
C26_Witness ==
    /\ pc = "returned"
    /\ maxNotes = 2
    /\ Len(chain) = 2
    /\ Len(ChainForCap(startFile, 3)) = 3

(* ------------------------------------------------------------------ *)
(* The BranchStore on its own                                         *)
(* ------------------------------------------------------------------ *)

\* add(file) from any caller
StoreAdd(file) ==
    /\ Len(entries) < MaxStoreLen
    /\ entries' = add(file)
    /\ sidebar' = emitChange(IF has(file) THEN 0 ELSE 1)
    /\ UNCHANGED <<storeFrame, maxDepth, maxAutoNotes, unreadable, call>>

\* add(file, index)
StoreAddAt(file, index) ==
    /\ Len(entries) < MaxStoreLen
    /\ entries' = addAt(file, index)
    /\ sidebar' = emitChange(IF has(file) THEN 0 ELSE 1)
    /\ UNCHANGED <<storeFrame, maxDepth, maxAutoNotes, unreadable, call>>

\* The sidebar is open: its listener is registered and the empty branch is
\* rendered.
InitBranch ==
    /\ resolvedLinks = <<>>
    /\ backlinkData = NoApi
    /\ maxDepth = DefaultDepth
    /\ maxAutoNotes = DefaultMaxNotes
    /\ pc = "idle"
    /\ startFile = NoFile
    /\ maxNotes = 0
    /\ queue = <<>>
    /\ visited = {}
    /\ chain = <<>>
    /\ chainDepth = <<>>
    /\ enqueued = <<>>
    /\ entries = <<>>
    /\ vaultText = SampleText
    /\ unreadable = {}
    /\ call = NoCall
    /\ sidebar = [open |-> TRUE, renders |-> 0]

NextBranch ==
    \/ \E f \in AllNotes : StoreAdd(f)
    \/ \E f \in AllNotes, i \in 0..MaxStoreLen : StoreAddAt(f, i)
    \/ \E p \in AllNotes : BranchRemove(p)
    \/ BranchClear
    \/ \E i, j \in -1..MaxStoreLen : BranchMove(i, j)

SpecBranch == InitBranch /\ [][NextBranch]_vars

\* C27: after any sequence of add, remove, move and clear no two entries of
\* the store have the same path; add of a path that is present gives the
\* entries as they are, add of an absent file without index gives the
\* entries followed by the file.
C27_NoDuplicateEntries ==
    /\ NoDuplicates(entries)
    /\ \A f \in AllNotes :
          /\ has(f) => add(f) = entries
          /\ ~has(f) => add(f) = Append(entries, f)

\* The store holds three notes in an order the vault does not list them
\* in, and one note is still absent.
C27_Witness ==
    /\ Len(entries) = 3
    /\ entries[1] = "new.md"
    /\ entries[3] = "a.md"
    /\ sidebar.renders = 1

\* s without its k-th element.
Without(s, k) == SubSeq(s, 1, k - 1) \o SubSeq(s, k + 1, Len(s))

\* C28: move(oldIndex, newIndex) with two different indices of the list puts
\* the entry of oldIndex at newIndex and keeps the other entries in their
\* order, so that the length and the set of the entries stay; with equal
\* indices or an index outside the list it gives the entries as they are.
C28_MoveReorders ==
    \A oldIndex, newIndex \in -1..MaxStoreLen :
        LET moved == move(oldIndex, newIndex)
            inRange == /\ oldIndex # newIndex
                       /\ oldIndex >= 0 /\ oldIndex < Len(entries)
                       /\ newIndex >= 0 /\ newIndex < Len(entries)
        IN  /\ inRange =>
                  /\ Len(moved) = Len(entries)
                  /\ Range(moved) = Range(entries)
                  /\ moved[newIndex + 1] = entries[oldIndex + 1]
                  /\ Without(moved, newIndex + 1) = Without(entries, oldIndex + 1)
            /\ ~inRange => moved = entries

\* The store holds four notes after an operation that changed it, and moving
\* its first entry to the third place shifts the two entries in between.
C28_Witness ==
    /\ Len(entries) = 4
    /\ sidebar.renders = 1
    /\ move(0, 2) = <<entries[2], entries[3], entries[1], entries[4]>>
    /\ move(0, 2) # entries

\* C29: an operation of the store that changes the entries triggers
\* 'branch-updated' once, and an operation that leaves them as they are (add
\* of a present path, remove of an absent path, clear of the empty store,
\* move with equal or out-of-range indices) does not trigger it.
C29_EventPerChange ==
    [][(sidebar.open /\ sidebar'.open) =>
          /\ entries' # entries => sidebar'.renders = 1
          /\ entries' = entries => sidebar'.renders = 0]_vars

\* The last operation on a store of two notes left it as it was and nothing
\* was rendered.
C29_Witness ==
    /\ sidebar.open
    /\ sidebar.renders = 0
    /\ Len(entries) = 2

(* ------------------------------------------------------------------ *)
(* The branch list across calls                                       *)
(* ------------------------------------------------------------------ *)

\* Thoughts from the console and responses from the editor follow each
\* other while the branch list is edited.
NextThoughts ==
    \/ \E f \in Paths : BranchAdd(f)
    \/ \E p \in AllNotes : BranchRemove(p)
    \/ BranchClear
    \/ \E i, j \in 0..MaxBranch : BranchMove(i, j)
    \/ \E f \in Paths, sel \in Selections : ProcessThought(f, sel)
    \/ \E f \in Paths : GenerateResponse(f)
    \/ ReadResolves
    \/ FormatReturns
    \/ InlineInserted
    \/ \E p \in NewPaths : NoteCreated(p)
    \/ ResponseRejects
    \/ CallEnds

SpecThoughts == Init /\ [][NextThoughts]_vars

\* C30: the step that completes a processThought call leaves the new note
\* on the branch list; a call of processThought or generateResponse without
\* a non-empty selection formats the branch list whenever it holds a note
\* and falls back to the automatic traversal only when it is empty; and no
\* step of a call takes a note off the list, which shrinks only by remove
\* and clear.
C30_BranchStaysInUse ==
    [][/\ (call.pc = "llm" /\ call'.pc = "done" /\ call.caller = "processThought") =>
              /\ entries' # <<>>
              /\ \E p \in NewPaths : entries' = Append(entries, p)
       /\ (/\ call.pc = "idle"
           /\ call'.pc = "format"
           /\ ~(call'.selectedNotes.given /\ Len(call'.selectedNotes.notes) > 0)) =>
              /\ entries # <<>> =>
                     /\ call'.strategy = "branch"
                     /\ call'.notes = entries
              /\ entries = <<>> => call'.strategy = "auto"
       /\ Len(entries') < Len(entries) =>
              /\ call' = call
              /\ \/ entries' = <<>>
                 \/ \E p \in AllNotes : entries' = SelectSeq(entries, LAMBDA e : e # p)
      ]_vars

\* After a thought was expanded, a later call without selection formats a
\* branch list that holds the note the thought made.
C30_Witness ==
    /\ call.pc = "format"
    /\ call.strategy = "branch"
    /\ ~call.selectedNotes.given
    /\ \E p \in NewPaths : p \in Range(call.notes)
    /\ Len(call.notes) >= 2

====
